---------------------------- MODULE Spec2Model ----------------------------
(***************************************************************************)
(* The packaging pipeline of notebooks/example.ipynb: a pretrained         *)
(* source-separation model is loaded, a metadata dictionary is built, the  *)
(* model is wrapped (AsteroidWrapper), traced, test-run, the metadata is   *)
(* validated and the pair is saved.                                        *)
(*                                                                         *)
(* Tensors are modelled by their shapes (sequences of naturals), a Python  *)
(* dict by a function from the keys it holds, a Python value by a record   *)
(* tagged with its type.  validate_metadata, test_run, save_model and      *)
(* get_example_inputs are imported from the audacitorch package            *)
(* (notebook lines 177-178); their bodies are not part of the notebook and *)
(* are modelled from the written specification of the package.             *)
(***************************************************************************)
EXTENDS Integers, Sequences, FiniteSets, TLC

(* ------------------------------ bounds --------------------------------- *)

\* number of sources of the downloaded checkpoint ranges over 1..MaxSrc
MaxSrc == 3
\* number of samples N of a synthetic example input ranges over 1..MaxSamples
MaxSamples == 2
\* a metadata input differs from a base dictionary in at most this many keys
MaxPerturbed == 2

(* --------------------------- Python values ----------------------------- *)

PyInt(i) == [t |-> "int", i |-> i]
PyStr(s) == [t |-> "str", s |-> s]
PyBool(b) == [t |-> "bool", b |-> b]
PyList(l) == [t |-> "list", l |-> l]
\* marks a key that a dict does not hold; never a value inside a dict
Absent == [t |-> "absent"]

RECURSIVE Pad(_)
\* a string of n characters
Pad(n) ==
  IF n = 0 THEN ""
  ELSE IF n % 2 = 1 THEN "x" \o Pad(n - 1)
  ELSE LET half == Pad(n \div 2) IN half \o half

(* --------------------------- metadata schema --------------------------- *)

MaxShortLen == 60
MaxLongLen == 280

Keys ==
  <<"sample_rate", "domain_tags", "short_description", "long_description",
    "tags", "labels", "effect_type", "multichannel">>

\* labels is required only for waveform-to-labels (rule 5)
RequiredKeys ==
  <<"sample_rate", "domain_tags", "short_description", "long_description",
    "tags", "effect_type", "multichannel">>

EffectTypes == {"waveform-to-waveform", "waveform-to-labels"}

SchemaType(k) ==
  CASE k = "sample_rate" -> "int"
    [] k \in {"short_description", "long_description", "effect_type"} -> "str"
    [] k \in {"domain_tags", "tags", "labels"} -> "list"
    [] k = "multichannel" -> "bool"

Range(s) == {s[i] : i \in DOMAIN s}

\* the first element of sequence s that is in the set bad, as a one-element
\* sequence, or <<>> when there is none
FirstIn(s, bad) ==
  LET hits == {i \in DOMAIN s : s[i] \in bad}
  IN IF hits = {} THEN <<>>
     ELSE <<s[CHOOSE i \in hits : \A j \in hits : i <= j]>>

(* ------------------------- the notebook's dict ------------------------- *)

\* the dict with 'sample_rate': args['sample_rate'], a float, not int(...)
NotebookMetadataFloatRate ==
  [sample_rate |-> [t |-> "float", f |-> 16000],
   domain_tags |-> PyList(<<"speech">>),
   short_description |->
     PyStr("Use me for speech separation! Works with 2 speakers."),
   long_description |->
     PyStr("This model was trained by Joris Cosentino using the librimix recipe in Asteroid. It was trained on the sep_noisy task of the Libri2Mix dataset."),
   tags |-> PyList(<<"speech separation", "speech">>),
   labels |-> PyList(<<"speaker-1", "speaker-2">>),
   effect_type |-> PyStr("waveform-to-waveform"),
   multichannel |-> PyBool(FALSE)]

\* metadata = {...}; int(args['sample_rate']) is 16000 for the _16k checkpoint
NotebookMetadata ==
  [sample_rate |-> PyInt(16000),
   domain_tags |-> PyList(<<"speech">>),
   short_description |->
     PyStr("Use me for speech separation! Works with 2 speakers."),
   long_description |->
     PyStr("This model was trained by Joris Cosentino using the librimix recipe in Asteroid. It was trained on the sep_noisy task of the Libri2Mix dataset."),
   tags |-> PyList(<<"speech separation", "speech">>),
   labels |-> PyList(<<"speaker-1", "speaker-2">>),
   effect_type |-> PyStr("waveform-to-waveform"),
   multichannel |-> PyBool(FALSE)]

\* the concrete scenario of the package's testable properties
ScenarioMetadata ==
  [sample_rate |-> PyInt(16000),
   domain_tags |-> PyList(<<"speech">>),
   short_description |-> PyStr("sep"),
   long_description |-> PyStr("desc"),
   tags |-> PyList(<<"t">>),
   labels |-> PyList(<<"speaker-1", "speaker-2">>),
   effect_type |-> PyStr("waveform-to-waveform"),
   multichannel |-> PyBool(FALSE)]


(* ---------------------------- metadata inputs -------------------------- *)

\* what a caller may put under key k instead of the base dictionary's value
\* (Absent: leave the key out)
Alternatives(k) ==
  CASE k = "sample_rate" -> {PyStr("16000"), Absent}
    [] k = "domain_tags" -> {PyStr("speech"), Absent}
    [] k = "short_description" ->
         {PyStr(Pad(MaxShortLen)), PyStr(Pad(MaxShortLen + 1)), PyInt(0), Absent}
    [] k = "long_description" ->
         {PyStr(Pad(MaxLongLen)), PyStr(Pad(MaxLongLen + 1)), Absent}
    [] k = "tags" -> {PyList(<<>>), Absent}
    [] k = "labels" -> {PyList(<<>>), PyStr("speaker-1"), Absent}
    [] k = "effect_type" ->
         {PyStr("waveform-to-labels"), PyStr("waveform-to-wavefrom"),
          PyBool(TRUE), Absent}
    [] k = "multichannel" -> {PyBool(TRUE), PyStr("no"), Absent}

\* base with the keys of f replaced (or removed, for Absent)
Perturb(base, f) ==
  [k \in {k \in DOMAIN base : k \in DOMAIN f => f[k] # Absent} |->
     IF k \in DOMAIN f THEN f[k] ELSE base[k]]

Perturbations ==
  UNION {{f \in [P -> UNION {Alternatives(k) : k \in P}] :
            \A k \in P : f[k] \in Alternatives(k)} :
         P \in {Q \in SUBSET Range(Keys) : Cardinality(Q) <= MaxPerturbed}}

MetadataInputs ==
  {Perturb(base, f) : base \in {NotebookMetadata, ScenarioMetadata},
                      f \in Perturbations}

(* --------------------------- validate_metadata ------------------------- *)

MaxLen(k) == IF k = "short_description" THEN MaxShortLen ELSE MaxLongLen

\* rule 1: all required keys present
MissingKey(md, required) == FirstIn(required, Range(required) \ DOMAIN md)

\* rule 2: each field that is present has the type of the schema
WrongType(md) ==
  FirstIn(Keys, {k \in DOMAIN md : md[k].t # SchemaType(k)})

\* rule 3: the descriptions respect their length bounds
TooLong(md) ==
  FirstIn(<<"short_description", "long_description">>,
          {k \in DOMAIN md \cap {"short_description", "long_description"} :
             md[k].t = "str" /\ Len(md[k].s) > MaxLen(k)})

\* rule 4: effect_type is one of the two recognized values
UnknownEffect(md) ==
  /\ "effect_type" \in DOMAIN md
  /\ md["effect_type"].t = "str"
  /\ md["effect_type"].s \notin EffectTypes

\* rule 5: labels required and non-empty when effect_type = waveform-to-labels
LabelsNeeded(md) ==
  /\ "effect_type" \in DOMAIN md
  /\ md["effect_type"] = PyStr("waveform-to-labels")
  /\ \/ "labels" \notin DOMAIN md
     \/ md["labels"].t = "list" /\ md["labels"].l = <<>>

\* the diagnostic: the rule that failed and the offending field
Diagnostic(rule, field) == <<rule, field>>

\* variant: 'multichannel' left out of the required keys
validate_forgets_multichannel(md) ==
  LET required == SelectSeq(RequiredKeys, LAMBDA k : k # "multichannel")
  IN IF MissingKey(md, required) # <<>>
       THEN <<FALSE, Diagnostic("missing required key", MissingKey(md, required)[1])>>
     ELSE IF WrongType(md) # <<>>
       THEN <<FALSE, Diagnostic("wrong type", WrongType(md)[1])>>
     ELSE IF TooLong(md) # <<>>
       THEN <<FALSE, Diagnostic("too long", TooLong(md)[1])>>
     ELSE IF UnknownEffect(md)
       THEN <<FALSE, Diagnostic("unrecognized value", "effect_type")>>
     ELSE IF LabelsNeeded(md)
       THEN <<FALSE, Diagnostic("required and non-empty", "labels")>>
     ELSE <<TRUE, <<>>>>

\* variant: rule 4 checked before rule 3
validate_effect_before_length(md) ==
  IF MissingKey(md, RequiredKeys) # <<>>
    THEN <<FALSE, Diagnostic("missing required key", MissingKey(md, RequiredKeys)[1])>>
  ELSE IF WrongType(md) # <<>>
    THEN <<FALSE, Diagnostic("wrong type", WrongType(md)[1])>>
  ELSE IF UnknownEffect(md)
    THEN <<FALSE, Diagnostic("unrecognized value", "effect_type")>>
  ELSE IF TooLong(md) # <<>>
    THEN <<FALSE, Diagnostic("too long", TooLong(md)[1])>>
  ELSE IF LabelsNeeded(md)
    THEN <<FALSE, Diagnostic("required and non-empty", "labels")>>
  ELSE <<TRUE, <<>>>>

\* validate_metadata(metadata) -> (success, message): the five checks in
\* order, stopping at the first failure; the empty message is <<>>
validate_metadata(md) ==
  IF MissingKey(md, RequiredKeys) # <<>>
    THEN <<FALSE, Diagnostic("missing required key", MissingKey(md, RequiredKeys)[1])>>
  ELSE IF WrongType(md) # <<>>
    THEN <<FALSE, Diagnostic("wrong type", WrongType(md)[1])>>
  ELSE IF TooLong(md) # <<>>
    THEN <<FALSE, Diagnostic("too long", TooLong(md)[1])>>
  ELSE IF UnknownEffect(md)
    THEN <<FALSE, Diagnostic("unrecognized value", "effect_type")>>
  ELSE IF LabelsNeeded(md)
    THEN <<FALSE, Diagnostic("required and non-empty", "labels")>>
  ELSE <<TRUE, <<>>>>

(* ------------------------- model, wrapper, test run -------------------- *)

\* the checkpoints that from_pretrained may hand back: the number of
\* sources, whether separate() answers with a batch dimension, and whether
\* the tracing engine accepts the model
Models == [n_src : 1..MaxSrc, batched : BOOLEAN, traceable : BOOLEAN]

\* model.separate(x): a (1, N) waveform to the (1, n_src, N) estimate
separate(m, x) ==
  IF m.batched THEN <<1, m.n_src, x[2]>> ELSE <<m.n_src, x[2]>>

\* AsteroidWrapper.do_forward_pass: self.model.separate(x)[0]
do_forward_pass(m, x) == Tail(separate(m, x))

\* serialized_model(x): the traced wrapper's entry point
serialized_model(m, x) == do_forward_pass(m, x)

\* wrapper.get_example_inputs(): synthetic single-channel waveforms (1, N)
ExampleInputs == {<<<<1, n>>>> : n \in 1..MaxSamples}

\* test_run(serialized_model): exercise the entry point on the example
\* inputs and confirm a (sources, samples) tensor comes back
test_run(m, inputs) ==
  IF \A i \in DOMAIN inputs : Len(serialized_model(m, inputs[i])) = 2
    THEN "ok"
    ELSE "ShapeContractError"

\* the two files of an artifact
ArtifactFiles == {"model.pt", "metadata.json"}

(* ------------------------------ the pipeline --------------------------- *)

VARIABLES
  pc,               \* the next statement of the notebook to run
  model,            \* the pretrained model
  metadata,         \* the metadata dict
  example_inputs,   \* wrapper.get_example_inputs()
  sample_output,    \* the printed sample output shape
  test_run_result,  \* "none", "ok" or the error test_run raised
  success,          \* validate_metadata's first result
  msg,              \* validate_metadata's second result
  error,            \* the exception that ended the run, or "none"
  files,            \* the files of the output directory
  stages,           \* history: the stages run so far
  validateCalls,    \* history: the arguments of each validate_metadata call
  saveCalls,        \* history: the metadata argument of each save_model call
  constructed       \* history: the dict as the metadata cell built it

vars ==
  <<pc, model, metadata, example_inputs, sample_output, test_run_result,
    success, msg, error, files, stages, validateCalls, saveCalls, constructed>>

\* an unbound name
EmptyDict == [k \in {} |-> Absent]

Init ==
  /\ pc = "load"
  /\ model = [n_src |-> 0, batched |-> FALSE, traceable |-> FALSE]
  /\ metadata = EmptyDict
  /\ example_inputs = <<>>
  /\ sample_output = <<>>
  /\ test_run_result = "none"
  /\ success = FALSE
  /\ msg = <<>>
  /\ error = "none"
  /\ files = {}
  /\ stages = <<>>
  /\ validateCalls = <<>>
  /\ saveCalls = <<>>
  /\ constructed = EmptyDict

\* model = ConvTasNet.from_pretrained(...)
LoadModel ==
  /\ pc = "load"
  /\ \E m \in Models : model' = m
  /\ pc' = "metadata"
  /\ UNCHANGED <<metadata, example_inputs, sample_output, test_run_result,
                 success, msg, error, files, stages, validateCalls, saveCalls,
                 constructed>>

\* metadata = {...}
BuildMetadata ==
  /\ pc = "metadata"
  /\ \E md \in MetadataInputs : metadata' = md /\ constructed' = md
  /\ stages' = Append(stages, "metadata")
  /\ pc' = "wrap"
  /\ UNCHANGED <<model, example_inputs, sample_output, test_run_result,
                 success, msg, error, files, validateCalls, saveCalls>>

\* wrapper = AsteroidWrapper(model); example_inputs = wrapper.get_example_inputs()
WrapModel ==
  /\ pc = "wrap"
  /\ \E xs \in ExampleInputs : example_inputs' = xs
  /\ stages' = Append(stages, "wrapper")
  /\ pc' = "trace"
  /\ UNCHANGED <<model, metadata, sample_output, test_run_result, success,
                 msg, error, files, validateCalls, saveCalls, constructed>>

\* variant: the test_run statement is missing from the cell
TraceSkipsTestRun ==
  /\ pc = "trace"
  /\ stages' = Append(stages, "trace")
  /\ IF model.traceable
       THEN /\ sample_output' = serialized_model(model, example_inputs[1])
            /\ pc' = "validate"
            /\ error' = error
       ELSE /\ sample_output' = sample_output
            /\ pc' = "aborted"
            /\ error' = "TraceError"
  /\ UNCHANGED <<model, metadata, example_inputs, test_run_result, success,
                 msg, files, validateCalls, saveCalls, constructed>>

\* serialized_model = torch.jit.trace(...); torch.jit.script(...); the two
\* prints of the sample input and output shapes
Trace ==
  /\ pc = "trace"
  /\ stages' = Append(stages, "trace")
  /\ IF model.traceable
       THEN /\ sample_output' = serialized_model(model, example_inputs[1])
            /\ pc' = "test_run"
            /\ error' = error
       ELSE /\ sample_output' = sample_output
            /\ pc' = "aborted"
            /\ error' = "TraceError"
  /\ UNCHANGED <<model, metadata, example_inputs, test_run_result, success,
                 msg, files, validateCalls, saveCalls, constructed>>

\* variant: test_run's exception is caught and ignored
TestRunSwallowsError ==
  /\ pc = "test_run"
  /\ stages' = Append(stages, "test_run")
  /\ test_run_result' = test_run(model, example_inputs)
  /\ pc' = "validate"
  /\ UNCHANGED <<model, metadata, example_inputs, sample_output, success, msg,
                 error, files, validateCalls, saveCalls, constructed>>

\* test_run(serialized_model)
TestRun ==
  /\ pc = "test_run"
  /\ stages' = Append(stages, "test_run")
  /\ test_run_result' = test_run(model, example_inputs)
  /\ IF test_run_result' = "ok"
       THEN pc' = "validate" /\ error' = error
       ELSE pc' = "aborted" /\ error' = test_run_result'
  /\ UNCHANGED <<model, metadata, example_inputs, sample_output, success, msg,
                 files, validateCalls, saveCalls, constructed>>

\* variant: validation removes 'labels' from the dict it is given
ValidatePopsLabels ==
  /\ pc = "validate"
  /\ stages' = Append(stages, "validate_metadata")
  /\ validateCalls' = Append(validateCalls, metadata)
  /\ success' = validate_metadata(metadata)[1]
  /\ msg' = validate_metadata(metadata)[2]
  /\ metadata' = [k \in DOMAIN metadata \ {"labels"} |-> metadata[k]]
  /\ pc' = "assert"
  /\ UNCHANGED <<model, example_inputs, sample_output, test_run_result,
                 error, files, saveCalls, constructed>>

\* success, msg = validate_metadata(metadata)
Validate ==
  /\ pc = "validate"
  /\ stages' = Append(stages, "validate_metadata")
  /\ validateCalls' = Append(validateCalls, metadata)
  /\ success' = validate_metadata(metadata)[1]
  /\ msg' = validate_metadata(metadata)[2]
  /\ pc' = "assert"
  /\ UNCHANGED <<model, metadata, example_inputs, sample_output,
                 test_run_result, error, files, saveCalls, constructed>>

\* variant: the assert is not executed
AssertStripped ==
  /\ pc = "assert"
  /\ pc' = "save"
  /\ UNCHANGED <<model, metadata, example_inputs, sample_output,
                 test_run_result, success, msg, error, files, stages,
                 validateCalls, saveCalls, constructed>>

\* assert success
AssertSuccess ==
  /\ pc = "assert"
  /\ IF success
       THEN pc' = "save" /\ error' = error
       ELSE pc' = "aborted" /\ error' = "AssertionError"
  /\ UNCHANGED <<model, metadata, example_inputs, sample_output,
                 test_run_result, success, msg, files, stages, validateCalls,
                 saveCalls, constructed>>

\* save_model(serialized_model, metadata, Path(...)): the traced-model file,
\* then metadata.json; either write may fail, and nothing is rolled back
SaveModel ==
  /\ pc = "save"
  /\ stages' = Append(stages, "save_model")
  /\ saveCalls' = Append(saveCalls, metadata)
  /\ \E outcome \in {"ok", "model write fails", "metadata write fails"} :
       /\ files' = CASE outcome = "ok" -> files \cup ArtifactFiles
                     [] outcome = "model write fails" -> files
                     [] outcome = "metadata write fails" -> files \cup {"model.pt"}
       /\ pc' = IF outcome = "ok" THEN "done" ELSE "aborted"
       /\ error' = IF outcome = "ok" THEN error ELSE "IOError"
  /\ UNCHANGED <<model, metadata, example_inputs, sample_output,
                 test_run_result, success, msg, validateCalls, constructed>>

Next ==
  \/ LoadModel
  \/ BuildMetadata
  \/ WrapModel
  \/ Trace
  \/ TestRun
  \/ Validate
  \/ AssertSuccess
  \/ SaveModel

Spec == Init /\ [][Next]_vars

(* ------------------------------- claims -------------------------------- *)

Validated == validateCalls # <<>>
IsPrefix(s, t) == Len(s) <= Len(t) /\ \A i \in DOMAIN s : s[i] = t[i]

\* C1: in every run in which validate_metadata(metadata) returns
\* success = false, the run stops at the assert: save_model is never invoked
\* and no file is written.
C1_InvalidMetadataNeverSaved ==
  (Validated /\ ~success) =>
    /\ pc \in {"assert", "aborted"}
    /\ saveCalls = <<>>
    /\ files = {}

C1_Witness ==
  Validated /\ ~success /\ pc = "aborted" /\ error = "AssertionError"

\* C2: in every run in which test_run fails on the output shape, the run
\* aborts before save_model is invoked and no file is written.
C2_FailedTestRunNeverSaved ==
  test_run_result = "ShapeContractError" =>
    /\ pc = "aborted"
    /\ saveCalls = <<>>
    /\ files = {}

C2_Witness ==
  /\ test_run_result = "ShapeContractError"
  /\ pc = "aborted"
  /\ error = "ShapeContractError"

\* the order of the notebook's statements
CellOrder ==
  <<"metadata", "wrapper", "trace", "test_run", "validate_metadata",
    "save_model">>

\* the order C3 states
ClaimedOrder ==
  <<"metadata", "validate_metadata", "wrapper", "trace", "test_run",
    "save_model">>

\* C3 (as stated): the stages run in the order metadata, validate_metadata,
\* wrapper, trace, test_run, save_model: validation precedes wrapping.
C3_ValidationBeforeWrapping == IsPrefix(stages, ClaimedOrder)

\* C3 (amended): the stages run in the order metadata, wrapper, trace,
\* test_run, validate_metadata, save_model: validation follows the test run
\* and precedes save_model.
C3_StagesInCellOrder == IsPrefix(stages, CellOrder)

C3_Witness == pc = "done" /\ stages = CellOrder

\* C4: whenever the run has ended, by completing or by aborting at any
\* stage, the output directory holds both files of the artifact or neither.
C4_BothFilesOrNeither ==
  pc \in {"done", "aborted"} => (files = {} \/ files = ArtifactFiles)

\* the hypothesis of C5: required fields present, types correct,
\* descriptions within bounds, effect_type recognized, labels non-empty
\* when required
WellFormed(md) ==
  /\ Range(RequiredKeys) \subseteq DOMAIN md
  /\ \A k \in DOMAIN md : md[k].t = SchemaType(k)
  /\ Len(md["short_description"].s) <= MaxShortLen
  /\ Len(md["long_description"].s) <= MaxLongLen
  /\ md["effect_type"].s \in EffectTypes
  /\ md["effect_type"].s = "waveform-to-labels" =>
       ("labels" \in DOMAIN md /\ Len(md["labels"].l) > 0)

\* C5: for every well-formed metadata mapping validate_metadata returns
\* (true, ""); the notebook's dictionary passes, so the assert does not fail.
C5_WellFormedAccepted ==
  Validated =>
    /\ WellFormed(validateCalls[1]) => (success /\ msg = <<>>)
    /\ validateCalls[1] = NotebookMetadata =>
         (success /\ msg = <<>> /\ error # "AssertionError")

C5_Witness ==
  /\ Validated
  /\ validateCalls[1] = NotebookMetadata
  /\ pc = "save"
  /\ success

\* C6: for every metadata mapping that lacks a required field, whatever the
\* other fields hold, validate_metadata returns success = false.
C6_MissingFieldRejected ==
  (Validated /\ \E k \in Range(RequiredKeys) : k \notin DOMAIN validateCalls[1])
    => ~success

C6_Witness ==
  /\ Validated
  /\ "multichannel" \notin DOMAIN validateCalls[1]
  /\ "short_description" \in DOMAIN validateCalls[1]
  /\ validateCalls[1]["short_description"].t = "int"
  /\ ~success

\* the scenario of C7: the concrete scenario with labels = []
ScenarioEmptyLabels == Perturb(ScenarioMetadata, [k \in {"labels"} |-> PyList(<<>>)])

\* C7: for the waveform-to-waveform scenario with an empty labels sequence,
\* validate_metadata returns success = false with a message naming "labels".
C7_EmptyLabelsRejected ==
  (Validated /\ validateCalls[1] = ScenarioEmptyLabels) =>
    (~success /\ "labels" \in Range(msg))

\* C8: on the example input (1, N) do_forward_pass returns (n_src, N) with
\* n_src the number of declared sources, len(metadata['labels']); any other
\* first dimension is caught by the test run, which raises.
C8_SourcesMatchLabelsOrRaise ==
  (test_run_result # "none" /\ metadata = NotebookMetadata) =>
    \/ do_forward_pass(model, example_inputs[1])
         = <<Len(metadata["labels"].l), example_inputs[1][2]>>
    \/ test_run_result = "ShapeContractError"

Offenders(md, r) ==
  CASE r = 1 -> Range(RequiredKeys) \ DOMAIN md
    [] r = 2 -> {k \in DOMAIN md : md[k].t # SchemaType(k)}
    [] r = 3 -> {k \in DOMAIN md \cap {"short_description", "long_description"} :
                   md[k].t = "str" /\ Len(md[k].s) >
                     (IF k = "short_description" THEN MaxShortLen ELSE MaxLongLen)}
    [] r = 4 -> {k \in DOMAIN md \cap {"effect_type"} :
                   md[k].t = "str" /\ md[k].s \notin EffectTypes}
    [] r = 5 -> IF /\ "effect_type" \in DOMAIN md
                   /\ md["effect_type"] = PyStr("waveform-to-labels")
                   /\ ("labels" \in DOMAIN md =>
                         md["labels"] = PyList(<<>>))
                  THEN {"labels"} ELSE {}

RuleNames ==
  <<"missing required key", "wrong type", "too long", "unrecognized value",
    "required and non-empty">>

Violated(md) == {r \in 1..5 : Offenders(md, r) # {}}
Lowest(S) == CHOOSE r \in S : \A q \in S : r <= q

\* C10: the checks run in the order 1..5 and stop at the first failure: for
\* a mapping that violates more than one rule the diagnostic names the
\* lowest-numbered violated rule and a field that breaks it, and nothing else.
C10_FirstViolatedRuleReported ==
  (Validated /\ Cardinality(Violated(validateCalls[1])) > 1) =>
    LET md == validateCalls[1]
        first == Lowest(Violated(md))
    IN /\ ~success
       /\ Len(msg) = 2
       /\ msg[1] = RuleNames[first]
       /\ msg[2] \in Offenders(md, first)

C10_Witness ==
  /\ Validated
  /\ Violated(validateCalls[1]) = {3, 4}
  /\ msg = <<"too long", "short_description">>

=============================================================================
